---- MODULE Spec2Model ----
(***************************************************************************)
(* jira-to-beads: the dependency-graph fetch of the Jira client            *)
(* (internal/jira/client.go), the Jira -> beads conversion                 *)
(* (internal/converter/proto_converter.go), the renderers of the output    *)
(* directory (internal/beads/yaml.go, jsonl.go) and the import and         *)
(* annotate commands that use them.                                        *)
(*                                                                         *)
(* A Jira key is a Go string; it is modelled as the sequence of its        *)
(* characters so that strings.ToLower is computed character by character.  *)
(* An optional value (a nil-able pointer of the Go code) is a sequence of  *)
(* length 0 (nil) or 1 (present).                                          *)
(***************************************************************************)
EXTENDS Integers, Sequences, FiniteSets

VARIABLES
    phase,      \* fetch: "idle" | "searched" | "running" | "returned"
    seeds,      \* fetch: the seed keys of the traversal (issueKey, or issueKeys of a label search)
    stack,      \* fetch: keys whose fetchRecursive call is still pending, innermost first
    visited,    \* fetch: the visited map of the traversal (set of keys mapped to true)
    issues,     \* fetch: the issues slice accumulated by the traversal
    requests,   \* Issue Source: number of FetchIssue requests received per key
    source,     \* Issue Source: the records it has answered with so far (key -> record)
    failedKey,  \* fetch: the key whose FetchIssue call failed, if any (optional)
    fetchRet,   \* fetch: the returned (export, error) pair
    errMsg,     \* fetch: the returned error: its message ("" without error) and the key
                \* the message names, if any
    searchResp, \* Issue Source: its response to the label search (optional)
    searchRet,  \* fetch: what SearchIssuesByLabel returned to FetchIssuesByLabel (optional)
    epicMap,    \* converter: ProtoConverter.epicMap
    issueMap,   \* converter: ProtoConverter.issueMap
    arg,        \* converter: the argument of the Convert call that has just returned (optional export)
    convRet,    \* converter: the (export, error) pair that call returned
    before,     \* caller: the result of the call before, when the call that has just returned
                \* was given the same export again (optional)
    pending,    \* caller: the records of the export it is assembling for Convert
    consumed,   \* caller: total size of the records it has assembled so far
    fnArg,      \* mapping functions: the argument a mapping function is applied to
    fnRet,      \* mapping functions: its result, once applied (optional)
    stage,      \* run: "fetch" | "converted" | "rendered" | "failed", the position of the
                \* import command that is running or has ended
    cmd,        \* run: "fetch" (quickstart, fetch-by-label) | "convert" (convert of a file)
    runs,       \* number of import commands started so far
    issueFiles, \* output directory: .beads/issues/<name>.yaml, name -> YAML content
    epicFiles,  \* output directory: .beads/epics/<name>.yaml, name -> YAML content
    jsonl,      \* output directory: the lines of .beads/issues.jsonl and .beads/epics.jsonl
    written,    \* number of files the running command has written
    prevRun,    \* the last command that rendered before the running one: its command, its
                \* Jira export and the output directory it left (optional)
    annRet,     \* annotate: the last AddRepositoryAnnotation call and its result (optional)
    added,      \* annotate: per issue id, the repositories in the order in which
                \* AddRepositoryAnnotation first succeeded for them
    annotations \* workflow: number of annotate commands run since the last import
                \* command started (counted where imports and annotations alternate)

searchVars == <<searchResp, searchRet>>
fetchVars == <<phase, seeds, stack, visited, issues, requests, source, failedKey, fetchRet,
               errMsg, searchVars>>
convVars == <<epicMap, issueMap, arg, convRet, before, pending, consumed>>
fnVars == <<fnArg, fnRet>>
outputVars == <<issueFiles, epicFiles, jsonl>>
storeVars == <<stage, cmd, runs, outputVars, written, prevRun, annRet, added, annotations>>
vars == <<fetchVars, convVars, fnVars, storeVars>>

(***************************************************************************)
(* Bounds of the model.                                                    *)
(***************************************************************************)
\* Most references (subtask entries, link ends, parent references) in the
\* whole graph the Issue Source answers with during one traversal.
MaxRefs == 2
\* Most keys a label search returns.
MaxSeeds == 2
\* Largest total size (records + links + parent references) of the exports
\* assembled for one converter instance.
MaxInput == 3
\* Most links of the record getDependencies is applied to on its own.
MaxLinks == 2
\* Most fragments a status name or a priority name is made of.
MaxWords == 2
\* Most import commands run one after the other on one output directory.
MaxRuns == 2
\* Largest size (record + links + parent reference) of the record of a Jira
\* export file given to the convert command.
MaxParsed == 2
\* Number of repositories an issue is annotated with.
MaxRepos == 2
\* Most annotate commands between two import commands of a workflow.
MaxAnnotations == 1

(***************************************************************************)
(* Keys and strings.                                                       *)
(***************************************************************************)
\* Two keys that differ only in letter case, and a third key.
Keys == { <<"P", "1">>, <<"p", "1">>, <<"E", "2">> }

\* The upper-case letters and, at the same positions, their lower-case forms.
UpperCase == << "A", "B", "C", "D", "E", "F", "G", "H", "I", "J", "K", "L", "M",
                "N", "O", "P", "Q", "R", "S", "T", "U", "V", "W", "X", "Y", "Z" >>
LowerCase == << "a", "b", "c", "d", "e", "f", "g", "h", "i", "j", "k", "l", "m",
                "n", "o", "p", "q", "r", "s", "t", "u", "v", "w", "x", "y", "z" >>

\* unicode.ToLower on one character: an upper-case letter becomes its
\* lower-case form, every other character stays.
ToLowerChar(c) ==
    IF \E i \in DOMAIN UpperCase : UpperCase[i] = c
    THEN LowerCase[CHOOSE i \in DOMAIN UpperCase : UpperCase[i] = c]
    ELSE c

\* strings.ToLower
ToLower(s) == [i \in DOMAIN s |-> ToLowerChar(s[i])]

\* strings.Contains
Contains(s, substr) ==
    \E i \in 0..(Len(s) - Len(substr)) : SubSeq(s, i + 1, i + Len(substr)) = substr

EpicTypeName == "Epic"
ParentTypeNames == {"Epic", "Story"}

\* Range of a sequence.
Range(s) == { s[i] : i \in DOMAIN s }

\* The keys of the records of a list.
KeysOfRecords(list) == { list[i].key : i \in DOMAIN list }

(***************************************************************************)
(* Raw records (pb.Issue) as the Issue Source answers with them.           *)
(***************************************************************************)
\* pb.Parent: the parent's key and the parent's own issue-type name.
ParentRefs == { [key |-> k, typ |-> t] : k \in Keys, t \in ParentTypeNames }

\* pb.IssueLinkType: the inward and outward relation phrases of a link type.
LinkTypes ==
    { [inward |-> "is blocked by", outward |-> "blocks"],
      [inward |-> "is depended on by", outward |-> "depends on"],
      [inward |-> "relates to", outward |-> "relates to"] }

RelatesType == [inward |-> "relates to", outward |-> "relates to"]

\* pb.IssueLink with exactly one end present (what the Jira API returns).
OneEndLinks(types) ==
    { [type |-> t, inwardIssue |-> <<k>>, outwardIssue |-> <<>>] : t \in types, k \in Keys }
    \cup
    { [type |-> t, inwardIssue |-> <<>>, outwardIssue |-> <<k>>] : t \in types, k \in Keys }

\* pb.IssueLink with both ends present (the code handles each end on its own).
TwoEndLinks(types) ==
    { [type |-> t, inwardIssue |-> <<i>>, outwardIssue |-> <<o>>] :
        t \in types, i \in Keys, o \in Keys }

\* pb.Issue, restricted to the fields the fetcher and the converter read.
Record(k, typ, sub, parent, links, subtasks) ==
    [key |-> k, summary |-> "Summary", typ |-> typ, subtask |-> sub, parent |-> parent,
     links |-> links, subtasks |-> subtasks]

\* Number of link ends present in a list of links.
RECURSIVE LinkEnds(_)
LinkEnds(ls) ==
    IF ls = <<>> THEN 0
    ELSE Len(Head(ls).inwardIssue) + Len(Head(ls).outwardIssue) + LinkEnds(Tail(ls))

\* References a record makes: subtask entries, link ends and the parent.
Refs(r) == Len(r.subtasks) + LinkEnds(r.links) + Len(r.parent)

\* Lists of links (of relation-neutral type) with exactly n ends in total.
RECURSIVE FetchLinkSeqs(_)
FetchLinkSeqs(n) ==
    IF n = 0 THEN { <<>> }
    ELSE { <<l>> \o s : l \in OneEndLinks({RelatesType}), s \in FetchLinkSeqs(n - 1) }
         \cup
         (IF n >= 2
          THEN { <<l>> \o s : l \in TwoEndLinks({RelatesType}), s \in FetchLinkSeqs(n - 2) }
          ELSE {})

\* Optional parents with exactly n parent references (n is 0 or 1).
ParentsOf(n) == IF n = 0 THEN { <<>> } ELSE { <<p>> : p \in ParentRefs }

\* The records keyed k that make exactly n references. The fetcher reads only
\* the key, the subtasks, the link ends and the parent; the other fields are
\* fixed.
FetchRecords(k, n) ==
    UNION { UNION { { Record(k, "Story", FALSE, p, ls, st) :
                        p \in ParentsOf(np),
                        ls \in FetchLinkSeqs(n - ns - np),
                        st \in [1..ns -> Keys] } :
                    np \in { x \in 0..1 : x <= n - ns } } :
            ns \in 0..n }

\* References in all records the Issue Source has answered with.
RECURSIVE RefsOfKeys(_, _)
RefsOfKeys(src, ks) ==
    IF ks = {} THEN 0
    ELSE LET k == CHOOSE x \in ks : TRUE
         IN Refs(src[k]) + RefsOfKeys(src, ks \ {k})

SourceRefs(src) == RefsOfKeys(src, DOMAIN src)

(***************************************************************************)
(* Graph fetcher: fetchRecursive.                                          *)
(***************************************************************************)
\* Mutant: only the outward end of each link is followed.
RECURSIVE LinkKeys_OutwardOnly(_)
LinkKeys_OutwardOnly(ls) ==
    IF ls = <<>> THEN <<>>
    ELSE Head(ls).outwardIssue \o LinkKeys_OutwardOnly(Tail(ls))

\* The keys of both ends of the links, in the order the loop visits them.
RECURSIVE LinkKeys(_)
LinkKeys(ls) ==
    IF ls = <<>> THEN <<>>
    ELSE Head(ls).inwardIssue \o Head(ls).outwardIssue \o LinkKeys(Tail(ls))

\* Mutant: the parent is followed whatever its issue-type.
ParentKeys_AnyType(r) ==
    IF r.parent # <<>> THEN << r.parent[1].key >> ELSE <<>>

\* The parent key, unless there is no parent or the parent is an epic.
ParentKeys(r) ==
    IF r.parent # <<>> /\ r.parent[1].typ # EpicTypeName
    THEN << r.parent[1].key >>
    ELSE <<>>

\* The keys fetchRecursive recurses into after fetching r, in call order.
NextKeys(r) == r.subtasks \o LinkKeys(r.links) \o ParentKeys(r)

\* Mutant: the visited check never finds the key.
IsVisited_Never(k, v) == FALSE

\* visited[issueKey]
IsVisited(k, v) == k \in v

\* Mutant: the key is not recorded as visited.
MarkVisited_Forgets(k, v) == v

\* visited[issueKey] = true
MarkVisited(k, v) == v \cup {k}

\* Mutant: the records fetched before the error are returned with it.
ErrorReturn_Partial(partial) == [err |-> TRUE, export |-> << partial >>]

\* What the caller of fetchRecursive returns when it returned an error:
\* a nil export, whatever was accumulated.
ErrorReturn(partial) == [err |-> TRUE, export |-> <<>>]

\* &pb.Export{Issues: issues}, nil
OkReturn(list) == [err |-> FALSE, export |-> << list >>]

NoRet == [err |-> FALSE, export |-> <<>>]

\* The messages of the errors a traversal returns.
SearchFailedMsg == "failed to search by label"
NoIssuesMsg == "no issues found with label"
FetchFailedMsg == "failed to fetch"
ParseFailedMsg == "failed to parse Jira file"

\* An error whose message names no key; no error.
Error(msg) == [msg |-> msg, key |-> <<>>]
NoError == Error("")

\* Mutant: the error names the first seed of the traversal.
FetchError_NamesSeed(issueKey, seedKeys) ==
    [msg |-> FetchFailedMsg, key |-> << Head(seedKeys) >>]

\* The error a traversal with the seeds seedKeys returns when FetchIssue
\* failed for issueKey: fmt.Errorf("failed to fetch %s: %w", issueKey, err)
\* in the failing call, returned as it is by every pending call and by
\* FetchIssueWithDependencies or FetchIssuesByLabel.
FetchError(issueKey, seedKeys) == [msg |-> FetchFailedMsg, key |-> << issueKey >>]

\* Mutant: the error is dropped and the pending calls go on.
AfterFailure_GoesOn(rest) == [phase |-> "running", stack |-> rest]

\* The traversal after a failed FetchIssue call, with the keys rest still
\* pending: every pending call returns the error at once.
AfterFailure(rest) == [phase |-> "returned", stack |-> <<>>]

FetchInit ==
    /\ phase = "idle"
    /\ seeds = <<>>
    /\ stack = <<>>
    /\ visited = {}
    /\ issues = <<>>
    /\ requests = [k \in Keys |-> 0]
    /\ source = <<>>
    /\ failedKey = <<>>
    /\ fetchRet = NoRet
    /\ errMsg = NoError
    /\ searchResp = <<>>
    /\ searchRet = <<>>

\* FetchIssueWithDependencies(issueKey): fresh visited map and issues slice,
\* then fetchRecursive(issueKey, ...).
FetchIssueWithDependencies(issueKey) ==
    /\ phase = "idle"
    /\ phase' = "running"
    /\ seeds' = << issueKey >>
    /\ stack' = << issueKey >>
    /\ visited' = {}
    /\ issues' = <<>>
    /\ UNCHANGED <<requests, source, failedKey, fetchRet, errMsg, searchVars>>
    /\ UNCHANGED convVars
    /\ UNCHANGED fnVars
    /\ UNCHANGED storeVars

\* Key lists a label search may return.
SearchResults == UNION { [1..n -> Keys] : n \in 0..MaxSeeds }

\* Responses of the Issue Source to a search: a failure, or a page of keys
\* with the total number of matches it reports.
SearchResponses ==
    { [ok |-> FALSE, keys |-> <<>>, total |-> 0] } \cup
    { [ok |-> TRUE, keys |-> ks, total |-> t] :
        ks \in SearchResults, t \in 0..(MaxSeeds + 1) }

\* Mutant: a page shorter than the reported total is an error.
SearchIssues_TruncationFails(resp) ==
    IF ~resp.ok \/ Len(resp.keys) < resp.total
    THEN [keys |-> <<>>, err |-> TRUE]
    ELSE [keys |-> resp.keys, err |-> FALSE]

\* SearchIssues: an error when the request fails, otherwise the keys of the
\* returned page in order; a total above their number only prints a warning.
SearchIssues(resp) ==
    IF ~resp.ok
    THEN [keys |-> <<>>, err |-> TRUE]
    ELSE [keys |-> [i \in DOMAIN resp.keys |-> resp.keys[i]], err |-> FALSE]

\* Mutant: an empty key list is not an error.
NoIssuesFound_Never(issueKeys) == FALSE

\* len(issueKeys) == 0
NoIssuesFound(issueKeys) == Len(issueKeys) = 0

\* FetchIssuesByLabel calls SearchIssuesByLabel, which returns.
SearchIssuesByLabel ==
    /\ phase = "idle"
    /\ phase' = "searched"
    /\ \E resp \in SearchResponses :
          /\ searchResp' = << resp >>
          /\ searchRet' = << SearchIssues(resp) >>
    /\ UNCHANGED <<seeds, stack, visited, issues, requests, source, failedKey, fetchRet, errMsg>>
    /\ UNCHANGED convVars
    /\ UNCHANGED fnVars
    /\ UNCHANGED storeVars

\* FetchIssuesByLabel when SearchIssuesByLabel returned an error.
FetchIssuesByLabelSearchError ==
    /\ phase = "searched"
    /\ searchRet[1].err
    /\ phase' = "returned"
    /\ fetchRet' = [err |-> TRUE, export |-> <<>>]
    /\ errMsg' = Error(SearchFailedMsg)
    /\ searchResp' = <<>>
    /\ searchRet' = <<>>
    /\ UNCHANGED <<seeds, stack, visited, issues, requests, source, failedKey>>
    /\ UNCHANGED convVars
    /\ UNCHANGED fnVars
    /\ UNCHANGED storeVars

\* FetchIssuesByLabel when the search returned issueKeys: an error when there
\* are none, otherwise one visited map and one issues slice for all of them,
\* and fetchRecursive for each key in order.
FetchIssuesByLabel ==
    /\ phase = "searched"
    /\ ~searchRet[1].err
    /\ LET issueKeys == searchRet[1].keys IN
        /\ seeds' = issueKeys
        /\ IF NoIssuesFound(issueKeys)
           THEN /\ phase' = "returned"
                /\ fetchRet' = [err |-> TRUE, export |-> <<>>]
                /\ errMsg' = Error(NoIssuesMsg)
                /\ UNCHANGED <<stack, visited, issues>>
           ELSE /\ phase' = "running"
                /\ stack' = issueKeys
                /\ visited' = {}
                /\ issues' = <<>>
                /\ UNCHANGED <<fetchRet, errMsg>>
    /\ searchResp' = <<>>
    /\ searchRet' = <<>>
    /\ UNCHANGED <<requests, source, failedKey>>
    /\ UNCHANGED convVars
    /\ UNCHANGED fnVars
    /\ UNCHANGED storeVars

\* fetchRecursive(k) for a key already visited: returns nil at once.
VisitSkip ==
    /\ phase = "running"
    /\ stack # <<>>
    /\ IsVisited(Head(stack), visited)
    /\ stack' = Tail(stack)
    /\ UNCHANGED <<phase, seeds, visited, issues, requests, source, failedKey, fetchRet,
                   errMsg, searchVars>>
    /\ UNCHANGED convVars
    /\ UNCHANGED fnVars
    /\ UNCHANGED storeVars

\* The records the Issue Source may answer a request for k with: the record
\* it answered with before, or any record keyed k within the reference bound.
Answers(k, src) ==
    IF k \in DOMAIN src
    THEN { src[k] }
    ELSE UNION { FetchRecords(k, n) : n \in 0..(MaxRefs - SourceRefs(src)) }

\* fetchRecursive(k) for a key not yet visited, FetchIssue answering with a
\* record r keyed k: mark, fetch, append, then recurse into NextKeys(r) before
\* the callers' remaining keys.
VisitFetchOk ==
    /\ phase = "running"
    /\ stack # <<>>
    /\ LET k == Head(stack) IN
        /\ ~IsVisited(k, visited)
        /\ \E r \in Answers(k, source) :
            /\ source' = [x \in DOMAIN source \cup {k} |->
                             IF x = k THEN r ELSE source[x]]
            /\ issues' = Append(issues, r)
            /\ stack' = NextKeys(r) \o Tail(stack)
        /\ visited' = MarkVisited(k, visited)
        /\ requests' = [requests EXCEPT ![k] = @ + 1]
    /\ UNCHANGED <<phase, seeds, failedKey, fetchRet, errMsg, searchVars>>
    /\ UNCHANGED convVars
    /\ UNCHANGED fnVars
    /\ UNCHANGED storeVars

\* fetchRecursive(k) for a key not yet visited, FetchIssue failing: the error
\* goes up through every pending call and the traversal returns it.
VisitFetchFail ==
    /\ phase = "running"
    /\ stack # <<>>
    /\ LET k == Head(stack) IN
        /\ ~IsVisited(k, visited)
        /\ visited' = MarkVisited(k, visited)
        /\ requests' = [requests EXCEPT ![k] = @ + 1]
        /\ failedKey' = << k >>
        /\ errMsg' = FetchError(k, seeds)
    /\ phase' = AfterFailure(Tail(stack)).phase
    /\ stack' = AfterFailure(Tail(stack)).stack
    /\ fetchRet' = ErrorReturn(issues)
    /\ UNCHANGED <<seeds, issues, source, searchVars>>
    /\ UNCHANGED convVars
    /\ UNCHANGED fnVars
    /\ UNCHANGED storeVars

\* Every fetchRecursive call returned nil: the traversal returns the export.
FetchReturn ==
    /\ phase = "running"
    /\ stack = <<>>
    /\ phase' = "returned"
    /\ fetchRet' = OkReturn(issues)
    /\ UNCHANGED <<seeds, stack, visited, issues, requests, source, failedKey, errMsg, searchVars>>
    /\ UNCHANGED convVars
    /\ UNCHANGED fnVars
    /\ UNCHANGED storeVars

\* A record as the Issue Source sends it when a required field is missing
\* from the payload: the field is left at its zero value by the JSON decoder.
Flaws == { "key", "summary", "issuetype" }
Flawed(r, flaw) ==
    CASE flaw = "key" -> [r EXCEPT !.key = <<>>]
      [] flaw = "summary" -> [r EXCEPT !.summary = ""]
      [] flaw = "issuetype" -> [r EXCEPT !.typ = ""]

\* Adapter.validate applied to a list of records: TRUE when it returns an
\* error. FetchIssue calls Adapter.convertIssue only, never validate.
validate(export) ==
    \/ Len(export) = 0
    \/ \E i \in DOMAIN export :
          \/ export[i].key = <<>>
          \/ export[i].summary = ""
          \/ export[i].typ = ""

\* fetchRecursive(k) for a key not yet visited, FetchIssue answering with a
\* payload that lacks a required field: FetchIssue returns the record as
\* decoded, and fetchRecursive goes on as with any other record.
VisitFetchInvalid ==
    /\ phase = "running"
    /\ stack # <<>>
    /\ LET k == Head(stack) IN
        /\ ~IsVisited(k, visited)
        /\ k \notin DOMAIN source
        /\ \E r \in Answers(k, source) : \E flaw \in Flaws :
            /\ source' = [x \in DOMAIN source \cup {k} |->
                             IF x = k THEN Flawed(r, flaw) ELSE source[x]]
            /\ issues' = Append(issues, Flawed(r, flaw))
            /\ stack' = NextKeys(Flawed(r, flaw)) \o Tail(stack)
        /\ visited' = MarkVisited(k, visited)
        /\ requests' = [requests EXCEPT ![k] = @ + 1]
    /\ UNCHANGED <<phase, seeds, failedKey, fetchRet, errMsg, searchVars>>
    /\ UNCHANGED convVars
    /\ UNCHANGED fnVars
    /\ UNCHANGED storeVars

FetchNext ==
    \/ \E k \in Keys : FetchIssueWithDependencies(k)
    \/ SearchIssuesByLabel
    \/ FetchIssuesByLabelSearchError
    \/ FetchIssuesByLabel
    \/ VisitSkip
    \/ VisitFetchOk
    \/ VisitFetchFail
    \/ FetchReturn

(***************************************************************************)
(* Schema converter: ProtoConverter.                                       *)
(***************************************************************************)
\* pb.IssueType values of the records given to the converter.
IssueTypes ==
    { [name |-> "Epic", subtask |-> FALSE],
      [name |-> "Story", subtask |-> FALSE],
      [name |-> "Sub-task", subtask |-> TRUE] }

\* Size of a record: itself, its links and its parent reference.
Size(r) == 1 + Len(r.links) + Len(r.parent)

RECURSIVE ExportSize(_)
ExportSize(e) == IF e = <<>> THEN 0 ELSE Size(Head(e)) + ExportSize(Tail(e))

\* The link types of the records given to the converter. With one end
\* present they give every case getDependencies tells apart: phrase and end
\* match, the phrase matches on the absent end, the phrase does not match.
ConvLinkTypes == LinkTypes \ {RelatesType}

\* The records of size exactly n. The converter does not read the subtasks.
ConvRecords(n) ==
    UNION { { Record(k, t.name, t.subtask, p, ls, <<>>) :
                k \in Keys, t \in IssueTypes, p \in ParentsOf(np),
                ls \in [1..(n - 1 - np) -> OneEndLinks(ConvLinkTypes)] } :
            np \in { x \in 0..1 : x <= n - 1 } }

\* generateBeadsID
generateBeadsID(jiraKey) == ToLower(jiraKey)

\* Index of the last record of a list for which field f has value v.
LastIndexWithKey(list, k) ==
    CHOOSE i \in DOMAIN list :
        /\ list[i].key = k
        /\ \A j \in DOMAIN list : list[j].key = k => j <= i

\* buildIssueMap: a later record replaces an earlier one with the same key.
buildIssueMap(export) ==
    [k \in KeysOfRecords(export) |-> export[LastIndexWithKey(export, k)]]

IsEpic(r) == r.typ = EpicTypeName
IsNotEpic(r) == r.typ # EpicTypeName

\* getEpics
getEpics(export) == SelectSeq(export, IsEpic)

\* Mutant: the issue loop of Convert does not skip the epics.
getNonEpics_All(export) == export

\* The records the issue loop of Convert converts, in order.
getNonEpics(export) == SelectSeq(export, IsNotEpic)

\* convertEpic
convertEpic(jiraIssue) ==
    [id |-> generateBeadsID(jiraIssue.key),
     jiraKey |-> jiraIssue.key,
     jiraIssueType |-> jiraIssue.typ]

\* Mutant: the epic loop does not record the converted epics.
EpicMapAfter_NotRecorded(em, epics) == em

\* c.epicMap after the epic loop of Convert: every epic's key maps to its id,
\* the entries already in the map stay.
EpicMapAfter(em, epics) ==
    [k \in DOMAIN em \cup KeysOfRecords(epics) |->
        IF k \in KeysOfRecords(epics) THEN generateBeadsID(k) ELSE em[k]]

\* Mutant: every record with a non-epic parent depends on it, subtask or not.
convertIssue_AnyChild(jiraIssue, em) ==
    [id |-> generateBeadsID(jiraIssue.key),
     jiraKey |-> jiraIssue.key,
     jiraIssueType |-> jiraIssue.typ,
     epic |->
        IF /\ jiraIssue.parent # <<>>
           /\ jiraIssue.parent[1].typ = EpicTypeName
           /\ jiraIssue.parent[1].key \in DOMAIN em
        THEN em[jiraIssue.parent[1].key]
        ELSE <<>>,
     dependsOn |->
        IF /\ jiraIssue.parent # <<>>
           /\ jiraIssue.parent[1].typ # EpicTypeName
        THEN << generateBeadsID(jiraIssue.parent[1].key) >>
        ELSE <<>>]

\* convertIssue with c.epicMap = em
convertIssue(jiraIssue, em) ==
    [id |-> generateBeadsID(jiraIssue.key),
     jiraKey |-> jiraIssue.key,
     jiraIssueType |-> jiraIssue.typ,
     epic |->
        IF /\ jiraIssue.parent # <<>>
           /\ jiraIssue.parent[1].typ = EpicTypeName
           /\ jiraIssue.parent[1].key \in DOMAIN em
        THEN em[jiraIssue.parent[1].key]
        ELSE <<>>,
     dependsOn |->
        IF /\ jiraIssue.parent # <<>>
           /\ jiraIssue.subtask
           /\ jiraIssue.parent[1].typ # EpicTypeName
        THEN << generateBeadsID(jiraIssue.parent[1].key) >>
        ELSE <<>>]

\* Mutant: every inward or outward issue of a link is a dependency, whatever
\* the relation phrases of the link are.
RECURSIVE LinkDeps_AnyPhrase(_)
LinkDeps_AnyPhrase(ls) ==
    IF ls = <<>> THEN <<>>
    ELSE Head(ls).inwardIssue \o Head(ls).outwardIssue \o LinkDeps_AnyPhrase(Tail(ls))

\* The dependency keys of one record's links (inner loop of getDependencies).
RECURSIVE LinkDeps(_)
LinkDeps(ls) ==
    IF ls = <<>> THEN <<>>
    ELSE LET link == Head(ls) IN
         (IF link.type.inward = "is blocked by" /\ link.inwardIssue # <<>>
          THEN link.inwardIssue ELSE <<>>)
         \o
         (IF link.type.outward = "depends on" /\ link.outwardIssue # <<>>
          THEN link.outwardIssue ELSE <<>>)
         \o LinkDeps(Tail(ls))

\* getDependencies: key -> dependency keys, for the records with at least
\* one; a later record with the same key replaces an earlier one.
getDependencies(export) ==
    LET withDeps == SelectSeq(export, LAMBDA r : LinkDeps(r.links) # <<>>)
    IN [k \in KeysOfRecords(withDeps) |->
           LinkDeps(withDeps[LastIndexWithKey(withDeps, k)].links)]

\* contains(slice, s): membership in a string slice.
contains(list, x) == \E i \in DOMAIN list : list[i] = x

\* Mutant: the dependency is appended without the duplicate check.
AddDep_NoCheck(dependsOn, depKey) == Append(dependsOn, generateBeadsID(depKey))

\* One step of the inner loop of addDependencies.
AddDep(dependsOn, depKey) ==
    IF ~contains(dependsOn, generateBeadsID(depKey))
    THEN Append(dependsOn, generateBeadsID(depKey))
    ELSE dependsOn

RECURSIVE AddDeps(_, _)
AddDeps(dependsOn, depKeys) ==
    IF depKeys = <<>> THEN dependsOn
    ELSE AddDeps(AddDep(dependsOn, Head(depKeys)), Tail(depKeys))

\* addDependencies: the link dependencies of a key go to the last converted
\* issue with that Jira key. Each key of jiraDeps changes a different issue,
\* so the iteration order of the Go map does not show in the result.
addDependencies(export, beadsIssues) ==
    LET jiraDeps == getDependencies(export)
        beadsIssueMap == [k \in { beadsIssues[i].jiraKey : i \in DOMAIN beadsIssues } |->
                            CHOOSE i \in DOMAIN beadsIssues :
                                /\ beadsIssues[i].jiraKey = k
                                /\ \A j \in DOMAIN beadsIssues :
                                      beadsIssues[j].jiraKey = k => j <= i]
    IN [i \in DOMAIN beadsIssues |->
          IF /\ beadsIssues[i].jiraKey \in DOMAIN jiraDeps
             /\ beadsIssueMap[beadsIssues[i].jiraKey] = i
          THEN [beadsIssues[i] EXCEPT
                   !.dependsOn = AddDeps(@, jiraDeps[beadsIssues[i].jiraKey])]
          ELSE beadsIssues[i]]

\* Mutant: the issues are converted before the epics of the batch are
\* recorded in c.epicMap.
ConvertExport_IssuesFirst(export, em) ==
    LET epics == getEpics(export)
        nonEpics == getNonEpics(export)
        converted == [i \in DOMAIN nonEpics |-> convertIssue(nonEpics[i], em)]
    IN [issues |-> addDependencies(export, converted),
        epics |-> [i \in DOMAIN epics |-> convertEpic(epics[i])]]

\* The beads export Convert builds from a non-nil export, with c.epicMap = em
\* on entry.
ConvertExport(export, em) ==
    LET epics == getEpics(export)
        em2 == EpicMapAfter(em, epics)
        nonEpics == getNonEpics(export)
        converted == [i \in DOMAIN nonEpics |-> convertIssue(nonEpics[i], em2)]
    IN [issues |-> addDependencies(export, converted),
        epics |-> [i \in DOMAIN epics |-> convertEpic(epics[i])]]

NoConvRet == [err |-> FALSE, export |-> <<>>]

\* NewProtoConverter
ConvInit ==
    /\ epicMap = <<>>
    /\ issueMap = <<>>
    /\ arg = <<>>
    /\ convRet = NoConvRet
    /\ before = <<>>
    /\ pending = <<>>
    /\ consumed = 0

\* Convert(jiraExport): nil gives an error; otherwise the issue map is
\* rebuilt, the epics are converted and recorded in c.epicMap, the other
\* records are converted, and the link dependencies are added.
Convert(jiraExport) ==
    /\ arg' = jiraExport
    /\ IF jiraExport = <<>>
       THEN /\ convRet' = [err |-> TRUE, export |-> <<>>]
            /\ UNCHANGED <<epicMap, issueMap>>
       ELSE /\ issueMap' = buildIssueMap(jiraExport[1])
            /\ epicMap' = EpicMapAfter(epicMap, getEpics(jiraExport[1]))
            /\ convRet' = [err |-> FALSE,
                           export |-> << ConvertExport(jiraExport[1], epicMap) >>]
    /\ UNCHANGED fetchVars
    /\ UNCHANGED fnVars

\* The caller adds a record to the export it is assembling; the call that
\* returned before is no longer the last thing that happened.
AssembleExport ==
    /\ \E n \in 1..(MaxInput - consumed) : \E r \in ConvRecords(n) :
          /\ pending' = Append(pending, r)
          /\ consumed' = consumed + n
    /\ arg' = <<>>
    /\ convRet' = NoConvRet
    /\ before' = <<>>
    /\ UNCHANGED <<epicMap, issueMap>>
    /\ UNCHANGED fetchVars
    /\ UNCHANGED fnVars
    /\ UNCHANGED storeVars

\* Convert is called with a nil export by a caller that has assembled none.
ConvertNil ==
    /\ pending = <<>>
    /\ Convert(<<>>)
    /\ before' = <<>>
    /\ UNCHANGED <<pending, consumed>>
    /\ UNCHANGED storeVars

\* Convert is called with the assembled export, which may hold no record.
ConvertSome ==
    /\ Convert(<< pending >>)
    /\ before' = <<>>
    /\ pending' = <<>>
    /\ UNCHANGED consumed
    /\ UNCHANGED storeVars

\* Convert is called again with the export of the call that has just
\* returned without error.
ConvertAgain ==
    /\ arg # <<>>
    /\ ~convRet.err
    /\ Convert(arg)
    /\ before' = << convRet.export[1] >>
    /\ UNCHANGED <<pending, consumed>>
    /\ UNCHANGED storeVars

ConvertNext ==
    \/ AssembleExport
    \/ ConvertNil
    \/ ConvertSome
    \/ ConvertAgain

\* No mapping function has been applied.
FnInit ==
    /\ fnArg = <<>>
    /\ fnRet = <<>>

\* The output directory is empty, no repository has been added, and the
\* first import command is about to fetch.
StoreInit ==
    /\ stage = "fetch"
    /\ cmd = "fetch"
    /\ runs = 1
    /\ issueFiles = <<>>
    /\ epicFiles = <<>>
    /\ jsonl = [issues |-> <<>>, epics |-> <<>>]
    /\ written = 0
    /\ prevRun = <<>>
    /\ annRet = <<>>
    /\ added = <<>>
    /\ annotations = 0

Init == FetchInit /\ ConvInit /\ FnInit /\ StoreInit

\* One traversal of the graph fetcher against the Issue Source.
FetchSpec == Init /\ [][FetchNext]_vars

\* A traversal against an Issue Source whose payloads may lack required
\* fields.
FetchAnyPayloadNext ==
    \/ \E k \in Keys : FetchIssueWithDependencies(k)
    \/ SearchIssuesByLabel
    \/ FetchIssuesByLabelSearchError
    \/ FetchIssuesByLabel
    \/ VisitSkip
    \/ VisitFetchOk
    \/ VisitFetchInvalid
    \/ VisitFetchFail
    \/ FetchReturn

FetchAnyPayloadSpec == Init /\ [][FetchAnyPayloadNext]_vars

\* Convert calls on one converter instance, on exports its caller assembles.
ConvertSpec == Init /\ [][ConvertNext]_vars

(***************************************************************************)
(* getDependencies applied to one record with links of any shape.          *)
(***************************************************************************)
\* pb.IssueLinkType values beyond LinkTypes: a dependency phrase in another
\* letter case, and the dependency phrases on the other side of the link.
OtherLinkTypes ==
    { [inward |-> "Is Blocked By", outward |-> "Depends On"],
      [inward |-> "depends on", outward |-> "is blocked by"] }

\* The keys the links of that record name.
LinkedKeys == { <<"p", "1">>, <<"E", "2">> }

\* pb.IssueLink with no, one or both ends present.
AnyEndLinks ==
    { [type |-> t, inwardIssue |-> i, outwardIssue |-> o] :
        t \in LinkTypes \cup OtherLinkTypes,
        i \in { <<>> } \cup { <<k>> : k \in LinkedKeys },
        o \in { <<>> } \cup { <<k>> : k \in LinkedKeys } }

\* The argument is an export of one record keyed P1 with at most MaxLinks
\* links.
DepsInit ==
    /\ FetchInit
    /\ ConvInit
    /\ StoreInit
    /\ \E n \in 0..MaxLinks : \E ls \in [1..n -> AnyEndLinks] :
          fnArg = << Record(<<"P", "1">>, "Story", FALSE, <<>>, ls, <<>>) >>
    /\ fnRet = <<>>

\* getDependencies(export) is called.
ApplyGetDependencies ==
    /\ fnRet = <<>>
    /\ fnRet' = << getDependencies(fnArg) >>
    /\ UNCHANGED <<fnArg, fetchVars, convVars, storeVars>>

DepsNext == ApplyGetDependencies

DepsSpec == DepsInit /\ [][DepsNext]_vars

(***************************************************************************)
(* mapStatus and mapPriority applied to drawn statuses and priorities.     *)
(***************************************************************************)
\* The substrings mapStatus looks for in the lower-cased status name.
Block == <<"b", "l", "o", "c", "k">>
Progress == <<"p", "r", "o", "g", "r", "e", "s", "s">>
Doing == <<"d", "o", "i", "n", "g">>
Done == <<"d", "o", "n", "e">>
Closed == <<"c", "l", "o", "s", "e", "d">>

\* The substrings mapPriority looks for in the lower-cased priority name.
Critical == <<"c", "r", "i", "t", "i", "c", "a", "l">>
Highest == <<"h", "i", "g", "h", "e", "s", "t">>
High == <<"h", "i", "g", "h">>
Medium == <<"m", "e", "d", "i", "u", "m">>
Lowest == <<"l", "o", "w", "e", "s", "t">>
Low == <<"l", "o", "w">>

\* Concatenation of a list of strings.
RECURSIVE Concat(_)
Concat(ws) == IF ws = <<>> THEN <<>> ELSE Head(ws) \o Concat(Tail(ws))

\* The names made of at most MaxWords fragments.
NamesOf(fragments) ==
    UNION { { Concat(ws) : ws \in [1..n -> fragments] } : n \in 0..MaxWords }

\* Fragments of status names, in several letter cases.
StatusFragments ==
    { Block, <<"B", "l", "o", "c", "k", "e", "d">>, <<"I", "n", " ", "P", "r", "o", "g", "r", "e", "s", "s">>, <<"D", "O", "I", "N", "G">>, Done, <<"C", "l", "o", "s", "e", "d">>, <<"T", "o", " ", "D", "o">> }

\* Fragments of priority names, in several letter cases.
PriorityFragments ==
    { <<"C", "r", "i", "t", "i", "c", "a", "l">>, <<"H", "i", "g", "h", "e", "s", "t">>, <<"H", "I", "G", "H">>, <<"H", "i", "g", "h">>, Medium, <<"L", "o", "w", "e", "s", "t">>, <<"L", "o", "w">>, <<"M", "i", "n", "o", "r">> }

\* pb.StatusCategory.Key values.
CategoryKeys == { "new", "indeterminate", "done", "undefined", "", "New" }

\* *pb.Status: nil, or a status with a name and a nil-able category.
Statuses ==
    { <<>> } \cup
    { << [name |-> n, category |-> c] >> :
        n \in NamesOf(StatusFragments),
        c \in { <<>> } \cup { << [key |-> k] >> : k \in CategoryKeys } }

\* *pb.Priority: nil, or a priority with a name.
Priorities ==
    { <<>> } \cup { << [name |-> n] >> : n \in NamesOf(PriorityFragments) }

\* Mutant: the status name is consulted before the category key.
mapStatus_NameFirst(jiraStatus) ==
    IF jiraStatus = <<>> \/ jiraStatus[1].category = <<>>
    THEN "open"
    ELSE LET statusName == ToLower(jiraStatus[1].name)
             key == jiraStatus[1].category[1].key
         IN IF Contains(statusName, Block) THEN "blocked"
            ELSE IF Contains(statusName, Progress) \/ Contains(statusName, Doing)
                 THEN "in_progress"
            ELSE IF Contains(statusName, Done) \/ Contains(statusName, Closed)
                 THEN "closed"
            ELSE IF key = "indeterminate" THEN "in_progress"
            ELSE IF key = "done" THEN "closed"
            ELSE "open"

\* mapStatus
mapStatus(jiraStatus) ==
    IF jiraStatus = <<>> \/ jiraStatus[1].category = <<>>
    THEN "open"
    ELSE LET key == jiraStatus[1].category[1].key
             statusName == ToLower(jiraStatus[1].name)
         IN CASE key = "new" -> "open"
              [] key = "indeterminate" -> "in_progress"
              [] key = "done" -> "closed"
              [] OTHER ->
                    IF Contains(statusName, Block) THEN "blocked"
                    ELSE IF Contains(statusName, Progress) \/ Contains(statusName, Doing)
                         THEN "in_progress"
                    ELSE IF Contains(statusName, Done) \/ Contains(statusName, Closed)
                         THEN "closed"
                    ELSE "open"

\* Mutant: "high" is looked for before "critical" and "highest", and "low"
\* before "lowest".
mapPriority_ShortFirst(jiraPriority) ==
    IF jiraPriority = <<>> THEN "p2"
    ELSE LET priorityName == ToLower(jiraPriority[1].name)
         IN IF Contains(priorityName, High) THEN "p1"
            ELSE IF Contains(priorityName, Critical) \/ Contains(priorityName, Highest)
                 THEN "p0"
            ELSE IF Contains(priorityName, Medium) THEN "p2"
            ELSE IF Contains(priorityName, Low) THEN "p3"
            ELSE IF Contains(priorityName, Lowest) THEN "p4"
            ELSE "p2"

\* mapPriority
mapPriority(jiraPriority) ==
    IF jiraPriority = <<>> THEN "p2"
    ELSE LET priorityName == ToLower(jiraPriority[1].name)
         IN IF Contains(priorityName, Critical) \/ Contains(priorityName, Highest)
            THEN "p0"
            ELSE IF Contains(priorityName, High) THEN "p1"
            ELSE IF Contains(priorityName, Medium) THEN "p2"
            ELSE IF Contains(priorityName, Lowest) THEN "p4"
            ELSE IF Contains(priorityName, Low) THEN "p3"
            ELSE "p2"

StatusInit ==
    /\ FetchInit
    /\ ConvInit
    /\ StoreInit
    /\ fnArg \in Statuses
    /\ fnRet = <<>>

\* mapStatus(jiraStatus) is called.
ApplyMapStatus ==
    /\ fnRet = <<>>
    /\ fnRet' = << mapStatus(fnArg) >>
    /\ UNCHANGED <<fnArg, fetchVars, convVars, storeVars>>

StatusNext == ApplyMapStatus

StatusSpec == StatusInit /\ [][StatusNext]_vars

PriorityInit ==
    /\ FetchInit
    /\ ConvInit
    /\ StoreInit
    /\ fnArg \in Priorities
    /\ fnRet = <<>>

\* mapPriority(jiraPriority) is called.
ApplyMapPriority ==
    /\ fnRet = <<>>
    /\ fnRet' = << mapPriority(fnArg) >>
    /\ UNCHANGED <<fnArg, fetchVars, convVars, storeVars>>

PriorityNext == ApplyMapPriority

PrioritySpec == PriorityInit /\ [][PriorityNext]_vars

(***************************************************************************)
(* Target renderers (YAMLRenderer, JSONLRenderer) and the import commands  *)
(* (runQuickstart, runFetchByLabel, runConvert) that fetch or parse,       *)
(* convert and render into one output directory.                           *)
(***************************************************************************)
\* A field of a message or of a decoded document; its zero value when the
\* field is not there.
Field(m, f, zero) == IF f \in DOMAIN m THEN m[f] ELSE zero

\* protoToYAMLString: the YAML document of an issue or an epic. protojson
\* with EmitUnpopulated = false leaves out every field that has its zero
\* value; the metadata message is emitted whenever it is set.
protoToYAMLString(msg) ==
    LET epic == Field(msg, "epic", <<>>)
        dependsOn == Field(msg, "dependsOn", <<>>)
        repositories == Field(msg, "repositories", <<>>)
        mdKeys == (IF msg.jiraKey # <<>> THEN {"jiraKey"} ELSE {})
                  \cup (IF msg.jiraIssueType # "" THEN {"jiraIssueType"} ELSE {})
                  \cup (IF repositories # <<>> THEN {"repositories"} ELSE {})
        metadata == [f \in mdKeys |->
                        CASE f = "jiraKey" -> msg.jiraKey
                          [] f = "jiraIssueType" -> msg.jiraIssueType
                          [] f = "repositories" -> repositories]
        keys == {"metadata"}
                \cup (IF msg.id # <<>> THEN {"id"} ELSE {})
                \cup (IF epic # <<>> THEN {"epic"} ELSE {})
                \cup (IF dependsOn # <<>> THEN {"dependsOn"} ELSE {})
    IN [f \in keys |->
           CASE f = "metadata" -> metadata
             [] f = "id" -> msg.id
             [] f = "epic" -> epic
             [] f = "dependsOn" -> dependsOn]

\* ParseIssueFile: the issue a YAML document decodes to; a field the
\* document does not have keeps its zero value.
ParseIssueFile(doc) ==
    LET metadata == Field(doc, "metadata", <<>>)
    IN [id |-> Field(doc, "id", <<>>),
        jiraKey |-> Field(metadata, "jiraKey", <<>>),
        jiraIssueType |-> Field(metadata, "jiraIssueType", ""),
        epic |-> Field(doc, "epic", <<>>),
        dependsOn |-> Field(doc, "dependsOn", <<>>),
        repositories |-> Field(metadata, "repositories", <<>>)]

\* Mutant: a render never overwrites; an id that has a file already gets a
\* file under a new name.
YAMLFileName_Fresh(id, files) == IF id \in DOMAIN files THEN Append(id, "'") ELSE id

\* The name (without directory and extension) of the file of the issue or
\* epic with this id: fmt.Sprintf("%s.yaml", id), whatever files there are.
YAMLFileName(id, files) == id

\* renderToYAML: os.Create truncates the file of that name or creates it,
\* and the document is written to it.
renderToYAML(files, filename, msg) ==
    [x \in DOMAIN files \cup {filename} |->
        IF x = filename THEN protoToYAMLString(msg) ELSE files[x]]

\* RenderIssue and RenderEpic on the files of their directory.
RenderIssue(files, msg) == renderToYAML(files, YAMLFileName(msg.id, files), msg)

\* The loops of YAMLRenderer.RenderExport: one file per message, in order.
RECURSIVE RenderAll(_, _)
RenderAll(files, msgs) ==
    IF msgs = <<>> THEN files
    ELSE RenderAll(RenderIssue(files, Head(msgs)), Tail(msgs))

\* issueToJSON and epicToJSON: the line of an issue or epic; empty fields
\* are omitted, and the metadata map holds the non-empty Jira fields only.
issueToJSON(msg) ==
    LET epic == Field(msg, "epic", <<>>)
        dependsOn == Field(msg, "dependsOn", <<>>)
        mdKeys == (IF msg.jiraKey # <<>> THEN {"jiraKey"} ELSE {})
                  \cup (IF msg.jiraIssueType # "" THEN {"jiraIssueType"} ELSE {})
        keys == {"id"}
                \cup (IF mdKeys # {} THEN {"metadata"} ELSE {})
                \cup (IF epic # <<>> THEN {"epic"} ELSE {})
                \cup (IF dependsOn # <<>> THEN {"dependsOn"} ELSE {})
    IN [f \in keys |->
           CASE f = "metadata" ->
                    [g \in mdKeys |-> IF g = "jiraKey" THEN msg.jiraKey
                                      ELSE msg.jiraIssueType]
             [] f = "id" -> msg.id
             [] f = "epic" -> epic
             [] f = "dependsOn" -> dependsOn]

\* JSONLRenderer.RenderExport: issues.jsonl is rewritten with one line per
\* issue; epics.jsonl is rewritten only when the export has an epic.
RenderJSONL(old, export) ==
    [issues |-> [i \in DOMAIN export.issues |-> issueToJSON(export.issues[i])],
     epics |-> IF Len(export.epics) > 0
               THEN [i \in DOMAIN export.epics |-> issueToJSON(export.epics[i])]
               ELSE old.epics]

\* What a Jira export file given to the convert command may hold: no
\* record, one record, or one record that lacks a required field.
FileContents ==
    LET rs == UNION { ConvRecords(n) : n \in 1..MaxParsed }
    IN { <<>> } \cup { << r >> : r \in rs }
       \cup { << Flawed(r, flaw) >> : r \in rs, flaw \in Flaws }

\* runConvert up to the return of Adapter.ParseFile: Parse decodes the file
\* and validates the export.
ParseFile ==
    /\ stage = "fetch"
    /\ phase = "idle"
    /\ cmd' = "convert"
    /\ phase' = "returned"
    /\ \E content \in FileContents :
          IF validate(content)
          THEN /\ fetchRet' = [err |-> TRUE, export |-> <<>>]
               /\ errMsg' = Error(ParseFailedMsg)
          ELSE /\ fetchRet' = OkReturn(content)
               /\ errMsg' = NoError
    /\ UNCHANGED <<seeds, stack, visited, issues, requests, source, failedKey, searchVars>>
    /\ UNCHANGED convVars
    /\ UNCHANGED fnVars
    /\ UNCHANGED <<stage, runs, outputVars, written, prevRun, annRet, added, annotations>>

\* Mutant: a command whose fetch failed renders the records fetched before
\* the failure.
OutputAfterFailure_RendersPartial(output, partial) ==
    << RenderAll(output[1], ConvertExport(partial, <<>>).issues), output[2], output[3] >>

\* The output directory when the command returns the error of the fetch or
\* of the parse: it returns before Convert and before the renderer is made,
\* whatever was fetched before the failure.
OutputAfterFailure(output, partial) == output

\* The fetch or the parse returned an error: the command returns it.
RunFailed ==
    /\ stage = "fetch"
    /\ phase = "returned"
    /\ fetchRet.err
    /\ stage' = "failed"
    /\ LET output == OutputAfterFailure(outputVars, issues)
       IN /\ issueFiles' = output[1]
          /\ epicFiles' = output[2]
          /\ jsonl' = output[3]
    /\ UNCHANGED fetchVars
    /\ UNCHANGED convVars
    /\ UNCHANGED fnVars
    /\ UNCHANGED <<cmd, runs, written, prevRun, annRet, added, annotations>>

\* The fetch or the parse returned an export: the command gives it to
\* Convert of its new converter, and returns the error if there is one.
ConvertFetched ==
    /\ stage = "fetch"
    /\ phase = "returned"
    /\ ~fetchRet.err
    /\ Convert(fetchRet.export)
    /\ stage' = IF convRet'.err THEN "failed" ELSE "converted"
    /\ UNCHANGED <<before, pending, consumed>>
    /\ UNCHANGED <<cmd, runs, outputVars, written, prevRun, annRet, added, annotations>>

\* Convert returned the beads export: the command renders it, as YAML files
\* after a fetch and as JSONL files after a parse.
RenderExport ==
    /\ stage = "converted"
    /\ stage' = "rendered"
    /\ LET export == convRet.export[1] IN
         IF cmd = "fetch"
         THEN /\ epicFiles' = RenderAll(epicFiles, export.epics)
              /\ issueFiles' = RenderAll(issueFiles, export.issues)
              /\ written' = Len(export.epics) + Len(export.issues)
              /\ UNCHANGED jsonl
         ELSE /\ jsonl' = RenderJSONL(jsonl, export)
              /\ written' = 1 + (IF Len(export.epics) > 0 THEN 1 ELSE 0)
              /\ UNCHANGED <<issueFiles, epicFiles>>
    /\ UNCHANGED fetchVars
    /\ UNCHANGED convVars
    /\ UNCHANGED fnVars
    /\ UNCHANGED <<cmd, runs, prevRun, annRet, added, annotations>>

\* The command has ended and the next import command starts on the same
\* output directory, with a new client and a new converter. The Issue Source
\* is the same and its issues have not changed.
NextCommand ==
    /\ stage \in {"rendered", "failed"}
    /\ runs < MaxRuns
    /\ runs' = runs + 1
    /\ stage' = "fetch"
    /\ cmd' = "fetch"
    /\ written' = 0
    /\ prevRun' = IF stage = "rendered"
                  THEN << [cmd |-> cmd, export |-> fetchRet.export[1],
                           output |-> outputVars] >>
                  ELSE prevRun
    /\ phase' = "idle"
    /\ seeds' = <<>>
    /\ stack' = <<>>
    /\ visited' = {}
    /\ issues' = <<>>
    /\ requests' = [k \in Keys |-> 0]
    /\ failedKey' = <<>>
    /\ fetchRet' = NoRet
    /\ errMsg' = NoError
    /\ epicMap' = <<>>
    /\ issueMap' = <<>>
    /\ arg' = <<>>
    /\ convRet' = NoConvRet
    /\ UNCHANGED <<source, searchVars, before, pending, consumed>>
    /\ UNCHANGED fnVars
    /\ annotations' = 0
    /\ UNCHANGED <<outputVars, annRet, added>>

\* One import command of any of the three kinds.
RunNext ==
    \/ \E k \in Keys : FetchIssueWithDependencies(k)
    \/ SearchIssuesByLabel
    \/ FetchIssuesByLabelSearchError
    \/ FetchIssuesByLabel
    \/ VisitSkip
    \/ VisitFetchOk
    \/ VisitFetchFail
    \/ FetchReturn
    \/ ParseFile
    \/ RunFailed
    \/ ConvertFetched
    \/ RenderExport

RunSpec == Init /\ [][RunNext]_vars

\* Quickstart commands run one after the other on one output directory.
ReimportNext ==
    \/ \E k \in Keys : FetchIssueWithDependencies(k)
    \/ VisitSkip
    \/ VisitFetchOk
    \/ VisitFetchFail
    \/ FetchReturn
    \/ RunFailed
    \/ ConvertFetched
    \/ RenderExport
    \/ NextCommand

ReimportSpec == Init /\ [][ReimportNext]_vars

(***************************************************************************)
(* The annotate command: YAMLRenderer.AddRepositoryAnnotation.             *)
(***************************************************************************)
\* The repositories issues are annotated with.
Repositories == 1..MaxRepos

\* The issue ids the annotate command is given.
IssueIDs == { generateBeadsID(k) : k \in Keys }

NotFoundMsg == "issue file not found"
DuplicateMsg == "is already associated with issue"

\* Mutant: the repository is never found among those of the issue.
IsAssociated_Never(repositories, repository) == FALSE

\* The loop over issue.Metadata.Repositories: the repository is one of them.
IsAssociated(repositories, repository) == repository \in Range(repositories)

\* Mutant: the repository is appended and the issue is saved before the
\* list is searched for the repository.
AnnotateOutcome_SavesBeforeCheck(files, issueID, repository) ==
    IF issueID \notin DOMAIN files
    THEN [err |-> NotFoundMsg, files |-> files]
    ELSE LET issue == ParseIssueFile(files[issueID])
             saved == RenderIssue(files,
                          [issue EXCEPT !.repositories = Append(@, repository)])
         IN IF IsAssociated(issue.repositories, repository)
            THEN [err |-> DuplicateMsg, files |-> saved]
            ELSE [err |-> "", files |-> saved]

\* AddRepositoryAnnotation(issueID, repository) on the issue files: the
\* error it returns ("" for nil) and the issue files it leaves. Without the
\* file of the issue it returns an error; otherwise it parses the file,
\* returns an error when the repository is in the list, and else appends
\* the repository and renders the issue back.
AnnotateOutcome(files, issueID, repository) ==
    IF issueID \notin DOMAIN files
    THEN [err |-> NotFoundMsg, files |-> files]
    ELSE LET issue == ParseIssueFile(files[issueID])
         IN IF IsAssociated(issue.repositories, repository)
            THEN [err |-> DuplicateMsg, files |-> files]
            ELSE [err |-> "",
                  files |-> RenderIssue(files,
                                [issue EXCEPT !.repositories = Append(@, repository)])]

\* No import command is between its start and its end.
NoCommandRunning == stage \in {"rendered", "failed"} \/ phase = "idle"

\* runAnnotate: AddRepositoryAnnotation with a new renderer of the output
\* directory.
AddRepositoryAnnotation(issueID, repository) ==
    /\ NoCommandRunning
    /\ LET outcome == AnnotateOutcome(issueFiles, issueID, repository)
           sofar == Field(added, issueID, <<>>)
       IN /\ issueFiles' = outcome.files
          /\ annRet' = << [id |-> issueID, repository |-> repository,
                           err |-> outcome.err] >>
          /\ added' = IF outcome.err = "" /\ repository \notin Range(sofar)
                      THEN [x \in DOMAIN added \cup {issueID} |->
                               IF x = issueID THEN Append(sofar, repository)
                               ELSE added[x]]
                      ELSE added
    /\ UNCHANGED fetchVars
    /\ UNCHANGED convVars
    /\ UNCHANGED fnVars
    /\ UNCHANGED <<stage, cmd, runs, epicFiles, jsonl, written, prevRun>>

Annotate == \E issueID \in IssueIDs, repository \in Repositories :
                AddRepositoryAnnotation(issueID, repository)

\* The export a quickstart fetches when the Issue Source has a Story without
\* references for each of the keys ks.
StoriesOf(ks) ==
    LET Has(r) == r.key \in ks
    IN SelectSeq(<< Record(<<"P", "1">>, "Story", FALSE, <<>>, <<>>, <<>>),
                    Record(<<"E", "2">>, "Story", FALSE, <<>>, <<>>, <<>>),
                    Record(<<"p", "1">>, "Story", FALSE, <<>>, <<>>, <<>>) >>, Has)

\* The output directory is as a quickstart left it, and no repository has
\* been added.
AnnotateInit ==
    /\ FetchInit
    /\ ConvInit
    /\ FnInit
    /\ stage = "fetch"
    /\ cmd = "fetch"
    /\ runs = 1
    /\ \E ks \in SUBSET Keys :
          issueFiles = RenderAll(<<>>, ConvertExport(StoriesOf(ks), <<>>).issues)
    /\ epicFiles = <<>>
    /\ jsonl = [issues |-> <<>>, epics |-> <<>>]
    /\ written = 0
    /\ prevRun = <<>>
    /\ annRet = <<>>
    /\ added = <<>>
    /\ annotations = 0

\* An annotate command, however many came before.
AnnotateAny == Annotate /\ UNCHANGED annotations

AnnotateNext == AnnotateAny

\* Annotate commands on an output directory.
AnnotateSpec == AnnotateInit /\ [][AnnotateNext]_vars

\* An annotate command of a workflow.
AnnotateBetweenImports ==
    /\ annotations < MaxAnnotations
    /\ Annotate
    /\ annotations' = annotations + 1

\* Quickstart and annotate commands run one after the other on one output
\* directory.
WorkflowNext ==
    \/ \E k \in Keys : FetchIssueWithDependencies(k)
    \/ VisitSkip
    \/ VisitFetchOk
    \/ VisitFetchFail
    \/ FetchReturn
    \/ RunFailed
    \/ ConvertFetched
    \/ RenderExport
    \/ NextCommand
    \/ AnnotateBetweenImports

WorkflowSpec == Init /\ [][WorkflowNext]_vars

(***************************************************************************)
(* Properties of the graph fetcher.                                        *)
(***************************************************************************)
Returned == phase = "returned"
ReturnedOk == phase = "returned" /\ ~fetchRet.err /\ fetchRet.export # <<>>

\* The record list of the returned export.
Result == fetchRet.export[1]

\* Number of positions of a list of keys that hold k.
Occurrences(k, ks) == Cardinality({ i \in DOMAIN ks : ks[i] = k })

\* Number of records of a list keyed k.
CountKey(k, list) == Cardinality({ i \in DOMAIN list : list[i].key = k })

\* The keys a record refers to, as the fetch contract names them: subtask
\* keys, inward- and outward-linked keys, and the parent key when the
\* parent's issue-type is not "Epic".
ContractRefs(r) ==
    { r.subtasks[i] : i \in DOMAIN r.subtasks }
    \cup { r.links[i].inwardIssue[1] :
             i \in { j \in DOMAIN r.links : r.links[j].inwardIssue # <<>> } }
    \cup { r.links[i].outwardIssue[1] :
             i \in { j \in DOMAIN r.links : r.links[j].outwardIssue # <<>> } }
    \cup { r.parent[i].key : i \in { j \in DOMAIN r.parent : r.parent[j].typ # "Epic" } }

\* The least set of keys that contains S and the contract references of
\* every member the Issue Source has a record for.
RECURSIVE Closure(_)
Closure(S) ==
    LET T == S \cup UNION { ContractRefs(source[k]) : k \in S \cap DOMAIN source }
    IN IF T = S THEN S ELSE Closure(T)

\* The keys some record of the source names as a parent of type "Epic".
EpicParentKeys ==
    { source[k].parent[1].key :
        k \in { x \in DOMAIN source :
                  source[x].parent # <<>> /\ source[x].parent[1].typ = "Epic" } }

\* A step of a running traversal is enabled.
TraversalCanStep == ENABLED (VisitSkip \/ VisitFetchOk \/ VisitFetchFail \/ FetchReturn)

\* (a, b) is below (c, d) in the lexicographic order.
LexLess(a, b, c, d) == a < c \/ (a = c /\ b < d)

\* C1: a traversal terminates, also on graphs with link cycles: while it runs
\* it can always take a step, and every step either returns or takes the pair
\* (number of keys not visited, number of pending calls) down in the
\* lexicographic order, so no traversal runs for ever. On success every
\* visited key appears exactly once in the returned record list and no key
\* appears twice.
C1_TerminatesWithoutDuplicates ==
    /\ [](phase = "running" => TraversalCanStep)
    /\ [][phase = "running" =>
             \/ phase' = "returned"
             \/ LexLess(Cardinality(Keys \ visited'), Len(stack'),
                        Cardinality(Keys \ visited), Len(stack))]_vars
    /\ [](ReturnedOk =>
            \A k \in Keys :
                /\ CountKey(k, Result) <= 1
                /\ (k \in visited => CountKey(k, Result) = 1))

\* C1 witness: a successful traversal of a two-key link cycle.
C1_Witness ==
    /\ ReturnedOk
    /\ Len(Result) = 2
    /\ \E a \in DOMAIN source : \E b \in DOMAIN source :
        /\ a # b
        /\ b \in Range(LinkKeys(source[a].links))
        /\ a \in Range(LinkKeys(source[b].links))

\* C2: during one traversal the Issue Source is asked for each key at most
\* once, however many seeds and references lead to the key.
C2_EachKeyRequestedAtMostOnce == \A k \in Keys : requests[k] <= 1

\* C2 witness: a finished label traversal in which a key is a repeated seed,
\* and one in which a key is reached by a seed and by a reference.
C2_Witness ==
    /\ ReturnedOk
    /\ \E k \in Keys :
        /\ requests[k] = 1
        /\ \/ Occurrences(k, seeds) >= 2
           \/ /\ Occurrences(k, seeds) = 1
              /\ Len(seeds) = 2
              /\ \E x \in DOMAIN source : x # k /\ k \in ContractRefs(source[x])

\* C3: on success the keys of the returned records are exactly the least set
\* that contains the seeds and is closed under subtask keys, linked keys and
\* non-epic parent keys.
C3_ResultIsClosureOfSeeds ==
    ReturnedOk => KeysOfRecords(Result) = Closure(Range(seeds))

\* C3 witness: a successful traversal whose result holds a non-epic parent
\* that is neither a seed nor a subtask or link target.
C3_Witness ==
    /\ ReturnedOk
    /\ \E i \in DOMAIN Result :
        /\ Result[i].parent # <<>>
        /\ Result[i].parent[1].typ # "Epic"
        /\ Result[i].parent[1].key # Result[i].key
        /\ Result[i].parent[1].key \notin Range(seeds)
        /\ Result[i].parent[1].key \in KeysOfRecords(Result)
        /\ Result[i].links = <<>> /\ Result[i].subtasks = <<>>

\* C4: a key outside the closure of the seeds, in particular one that
\* records name only as a parent of type "Epic", is never requested from the
\* Issue Source and is in no fetched or returned record list.
C4_EpicParentNeverFetched ==
    \A k \in Keys \ Closure(Range(seeds)) :
        /\ requests[k] = 0
        /\ k \notin KeysOfRecords(issues)
        /\ (ReturnedOk => k \notin KeysOfRecords(Result))

\* C4 witness: a successful traversal that fetched a record whose parent is
\* an epic that nothing else leads to.
C4_Witness ==
    /\ ReturnedOk
    /\ \E k \in EpicParentKeys :
        /\ k \notin Closure(Range(seeds))
        /\ requests[k] = 0

\* C5: once a FetchIssue call has failed the traversal has returned an error
\* and no record list.
C5_FailureReturnsNoRecords ==
    failedKey # <<>> =>
        /\ phase = "returned"
        /\ fetchRet.err
        /\ fetchRet.export = <<>>

\* C5 witness: a fetch that failed below the seed, after a record had been
\* fetched.
C5_Witness ==
    /\ failedKey # <<>>
    /\ Len(issues) >= 1
    /\ failedKey[1] \notin Range(seeds)

(***************************************************************************)
(* Properties of the schema converter.                                     *)
(***************************************************************************)
\* The last Convert call was given a non-nil export and returned one.
Converted == arg # <<>> /\ ~convRet.err /\ convRet.export # <<>>

\* The records given to the last Convert call, and what it returned.
Batch == arg[1]
OutIssues == convRet.export[1].issues
OutEpics == convRet.export[1].epics

\* A list holds no value twice.
NoRepeats(list) == \A i \in DOMAIN list : \A j \in DOMAIN list : list[i] = list[j] => i = j

\* The batch holds a record of issue-type "Epic" with key k.
EpicInBatch(k) == \E j \in DOMAIN Batch : Batch[j].typ = "Epic" /\ Batch[j].key = k

\* What C6 says of the result of a Convert call on a non-nil export.
EpicIdsFollowBatch ==
    /\ Converted
    /\ Len(OutIssues) = Len(getNonEpics(Batch))
    /\ \A i \in DOMAIN getNonEpics(Batch) :
        LET r == getNonEpics(Batch)[i] IN
        IF r.parent # <<>> /\ r.parent[1].typ = "Epic" /\ EpicInBatch(r.parent[1].key)
        THEN OutIssues[i].epic = ToLower(r.parent[1].key)
        ELSE OutIssues[i].epic = <<>>

\* C6: a Convert call of a non-nil export on a converter whose registries are
\* as constructed does not fail, and a non-epic record whose parent has type
\* "Epic" gets the lower-cased parent key as epic-id exactly when an epic
\* with that key is in the batch, at any position; otherwise its epic-id is
\* empty.
C6_EpicIdIffEpicInBatch ==
    [][(epicMap = <<>> /\ arg' # <<>>) => EpicIdsFollowBatch']_vars

\* C6 witness: the only export this converter was given lists the issue
\* before its epic, and the issue has the epic-id.
C6_Witness ==
    /\ Converted
    /\ consumed = ExportSize(Batch)
    /\ Len(Batch) = 2
    /\ Batch[1].typ # "Epic" /\ Batch[2].typ = "Epic"
    /\ Batch[1].parent # <<>>
    /\ Batch[1].parent[1].typ = "Epic"
    /\ Batch[1].parent[1].key = Batch[2].key
    /\ OutIssues[1].epic = ToLower(Batch[2].key)
    /\ OutIssues[1].epic # <<>>

\* C7: every Convert call on a converter instance returns what a fresh
\* converter returns for the same input.
C7_SameAsFreshConverter ==
    Converted => convRet.export[1] = ConvertExport(Batch, <<>>)

\* C8: after Convert no issue's dependency list holds the same id twice.
C8_NoDuplicateDependency ==
    Converted => \A i \in DOMAIN OutIssues : NoRepeats(OutIssues[i].dependsOn)

\* The keys of the links of r that qualify as dependencies.
QualifyingKeys(r) == LinkDeps(r.links)

\* C8 witness: a subtask whose non-epic parent is also named by a qualifying
\* link, converted to a single dependency.
C8_Witness ==
    /\ Converted
    /\ Len(Batch) = 1
    /\ Batch[1].subtask
    /\ Batch[1].parent # <<>>
    /\ Batch[1].parent[1].typ # "Epic"
    /\ QualifyingKeys(Batch[1]) = << Batch[1].parent[1].key >>
    /\ OutIssues[1].dependsOn = << ToLower(Batch[1].parent[1].key) >>

\* C9: after Convert every id in every issue's dependency list is the id of
\* an issue of the same output.
C9_DependenciesAreOutputIssues ==
    Converted =>
        \A i \in DOMAIN OutIssues :
            \A d \in DOMAIN OutIssues[i].dependsOn :
                \E j \in DOMAIN OutIssues : OutIssues[j].id = OutIssues[i].dependsOn[d]

\* C10: a successful Convert of records with pairwise distinct keys returns
\* issues and epics with pairwise distinct ids.
C10_DistinctKeysDistinctIds ==
    (Converted /\ NoRepeats([i \in DOMAIN Batch |-> Batch[i].key])) =>
        NoRepeats([i \in DOMAIN OutIssues |-> OutIssues[i].id]
                  \o [i \in DOMAIN OutEpics |-> OutEpics[i].id])

(***************************************************************************)
(* Properties of getDependencies.                                          *)
(***************************************************************************)
\* The link contributes an edge to its inward issue.
InwardEdge(l) == l.type.inward = "is blocked by" /\ l.inwardIssue # <<>>

\* The link contributes an edge to its outward issue.
OutwardEdge(l) == l.type.outward = "depends on" /\ l.outwardIssue # <<>>

\* Number of edges to k the links ls contribute.
EdgesTo(k, ls) ==
    Cardinality({ i \in DOMAIN ls : InwardEdge(ls[i]) /\ ls[i].inwardIssue = <<k>> })
    + Cardinality({ i \in DOMAIN ls : OutwardEdge(ls[i]) /\ ls[i].outwardIssue = <<k>> })

\* C11: a link of record R gives a dependency edge from R to its inward issue
\* exactly when its inward phrase is "is blocked by" and the inward issue is
\* present, and to its outward issue exactly when its outward phrase is
\* "depends on" and the outward issue is present; links with other phrases
\* give no edge. R has no entry when none of its links gives an edge.
C11_LinkEdges ==
    fnRet # <<>> =>
        LET r == fnArg[1]
            deps == fnRet[1]
        IN /\ DOMAIN deps \subseteq { r.key }
           /\ r.key \in DOMAIN deps <=> \E k \in LinkedKeys : EdgesTo(k, r.links) > 0
           /\ r.key \in DOMAIN deps =>
                /\ Range(deps[r.key]) \subseteq LinkedKeys
                /\ \A k \in LinkedKeys :
                      Occurrences(k, deps[r.key]) = EdgesTo(k, r.links)

\* C11 witness: of two links to different keys, one says "is blocked by" and
\* the other "Is Blocked By"; only the first gives an edge.
C11_Witness ==
    /\ fnRet # <<>>
    /\ Len(fnArg[1].links) = 2
    /\ fnArg[1].links[1].type.inward = "is blocked by"
    /\ fnArg[1].links[1].inwardIssue = << <<"E", "2">> >>
    /\ fnArg[1].links[1].outwardIssue = <<>>
    /\ fnArg[1].links[2].type.inward = "Is Blocked By"
    /\ fnArg[1].links[2].inwardIssue = << <<"p", "1">> >>
    /\ fnRet[1] = [k \in { fnArg[1].key } |-> << <<"E", "2">> >>]

(***************************************************************************)
(* More properties of the converter.                                       *)
(***************************************************************************)
\* The ids of the keys that the links of the batch records keyed k give an
\* edge to.
LinkIdsOfKey(k) ==
    { ToLower(x) : x \in { y \in Keys :
        \E j \in DOMAIN Batch : Batch[j].key = k /\ EdgesTo(y, Batch[j].links) > 0 } }

\* The record has the subtask flag and a parent that is not an epic.
SubtaskOfNonEpic(r) ==
    r.subtask /\ r.parent # <<>> /\ r.parent[1].typ # "Epic"

\* C12: a converted issue gets a dependency on the id of its parent from the
\* parent reference exactly when the record has the subtask flag, has a
\* parent and the parent's type is not "Epic": it is then the first entry of
\* the dependency list; otherwise every entry of the list comes from a link.
C12_ParentDependencyOnlyForSubtasks ==
    Converted =>
        \A i \in DOMAIN OutIssues :
            LET r == getNonEpics(Batch)[i]
                o == OutIssues[i]
            IN IF SubtaskOfNonEpic(r)
               THEN o.dependsOn # <<>> /\ o.dependsOn[1] = ToLower(r.parent[1].key)
               ELSE Range(o.dependsOn) \subseteq LinkIdsOfKey(r.key)

\* C12 witness: a subtask of a story and a story without parent in one
\* batch; only the subtask has a dependency.
C12_Witness ==
    /\ Converted
    /\ Len(Batch) = 2
    /\ SubtaskOfNonEpic(Batch[1])
    /\ Batch[1].links = <<>>
    /\ ~Batch[2].subtask /\ Batch[2].typ # "Epic"
    /\ OutIssues[1].dependsOn = << ToLower(Batch[1].parent[1].key) >>
    /\ OutIssues[2].dependsOn = <<>>

\* The keys of a list of records, in order.
KeySeq(list) == [i \in DOMAIN list |-> list[i].key]

\* The Jira keys of a list of converted issues or epics, in order.
JiraKeySeq(list) == [i \in DOMAIN list |-> list[i].jiraKey]

\* C13: Convert partitions its input: the epics of the output are the records
\* of type "Epic", one each and in input order, the issues of the output are
\* the other records, one each and in input order, and there are as many
\* issues and epics together as input records.
C13_PartitionByType ==
    Converted =>
        /\ JiraKeySeq(OutEpics) = KeySeq(SelectSeq(Batch, LAMBDA r : r.typ = "Epic"))
        /\ JiraKeySeq(OutIssues) = KeySeq(SelectSeq(Batch, LAMBDA r : r.typ # "Epic"))
        /\ Len(OutIssues) + Len(OutEpics) = Len(Batch)

\* C13 witness: an epic listed between two other records.
C13_Witness ==
    /\ Converted
    /\ Len(Batch) = 3
    /\ Batch[1].typ # "Epic" /\ Batch[2].typ = "Epic" /\ Batch[3].typ # "Epic"
    /\ Batch[1].key # Batch[3].key
    /\ JiraKeySeq(OutIssues) = << Batch[1].key, Batch[3].key >>
    /\ JiraKeySeq(OutEpics) = << Batch[2].key >>

(***************************************************************************)
(* Properties of mapStatus and mapPriority.                                *)
(***************************************************************************)
BeadsStatuses == { "open", "in_progress", "blocked", "closed" }
BeadsPriorities == { "p0", "p1", "p2", "p3", "p4" }

\* What the lower-cased status name gives when the category key decides
\* nothing.
StatusByName(name) ==
    IF Contains(name, Block) THEN "blocked"
    ELSE IF Contains(name, Progress) \/ Contains(name, Doing) THEN "in_progress"
    ELSE IF Contains(name, Done) \/ Contains(name, Closed) THEN "closed"
    ELSE "open"

ConvertReturned == arg # <<>> \/ convRet # NoConvRet

\* C16: Convert called with a nil export, or with an export that has no
\* record, returns an error and no beads export.
C16_NilOrEmptyExportFails ==
    (ConvertReturned /\ (arg = <<>> \/ arg = << <<>> >>)) =>
        (convRet.err /\ convRet.export = <<>>)

(***************************************************************************)
(* Properties of the label search.                                         *)
(***************************************************************************)
\* The label search has returned no key and no error.
SearchFoundNothing ==
    phase = "searched" /\ ~searchRet[1].err /\ searchRet[1].keys = <<>>

\* The traversal has returned the error of a search without match.
ReturnedNoIssues == phase = "returned" /\ errMsg.msg = NoIssuesMsg

\* C17: when the label search matches no key, FetchIssuesByLabel returns an
\* error of its own ("no issues found with label"), which no other failure
\* gives, and no export; the Issue Source is never asked for a record in
\* that run.
C17_EmptySearchIsDistinctError ==
    /\ [][SearchFoundNothing => ReturnedNoIssues']_vars
    /\ [][(~ReturnedNoIssues /\ ReturnedNoIssues') => SearchFoundNothing]_vars
    /\ [](ReturnedNoIssues =>
            /\ fetchRet.err
            /\ fetchRet.export = <<>>
            /\ \A k \in Keys : requests[k] = 0)
    /\ [](errMsg.msg \in { SearchFailedMsg, FetchFailedMsg } => ~ReturnedNoIssues)

\* C17 witness: a traversal returned the error of a search without match.
C17_Witness ==
    /\ ReturnedNoIssues
    /\ fetchRet.err
    /\ seeds = <<>>

\* The Issue Source reported more matches than the keys it returned.
SearchTruncated ==
    /\ phase = "searched"
    /\ searchResp[1].ok
    /\ Len(searchResp[1].keys) < searchResp[1].total

C19_InvalidRecordAbortsTraversal ==
    /\ \A i \in DOMAIN issues : ~validate(<< issues[i] >>)
    /\ ReturnedOk => \A i \in DOMAIN Result : ~validate(<< Result[i] >>)

(***************************************************************************)
(* Properties of converting the same export twice.                         *)
(***************************************************************************)
\* C20: when one converter instance converts the same export twice, the
\* second result is the first result: every issue has the same dependency
\* list in both, and no dependency list holds an id twice.
C20_ConvertTwiceSameOutput ==
    before # <<>> =>
        /\ Converted
        /\ convRet.export[1] = before[1]
        /\ \A i \in DOMAIN OutIssues :
              /\ OutIssues[i].dependsOn = before[1].issues[i].dependsOn
              /\ NoRepeats(OutIssues[i].dependsOn)

\* C20 witness: an export with an issue that has two dependencies and is
\* named by both its links was converted twice.
C20_Witness ==
    /\ before # <<>>
    /\ Converted
    /\ Len(OutIssues) = 1
    /\ Len(Batch[1].links) = 2
    /\ Len(OutIssues[1].dependsOn) = 2
    /\ before[1].issues[1].dependsOn = OutIssues[1].dependsOn

(***************************************************************************)
(* Properties of the import commands and of the output directory.          *)
(***************************************************************************)
\* The command has converted what it fetched from the Issue Source.
FetchedAndConverted ==
    /\ cmd = "fetch"
    /\ stage \in {"converted", "rendered"}

\* The fetched records that Convert made issues of, in the order of the
\* issues of the beads export.
ConvertedRecords == getNonEpics(fetchRet.export[1])

HasEpicParent(r) == r.parent # <<>> /\ r.parent[1].typ = EpicTypeName

\* C21: after a fetch from a seed and the Convert of the fetched records,
\* every converted issue whose Jira parent is an Epic has its epic field set
\* to the id of that epic.
C21_EpicFieldOfEpicChildren ==
    FetchedAndConverted =>
        \A i \in DOMAIN ConvertedRecords :
            HasEpicParent(ConvertedRecords[i]) =>
                convRet.export[1].issues[i].epic
                    = generateBeadsID(ConvertedRecords[i].parent[1].key)

\* The status mapping function has been applied to a status of this name.
MappedStatusNamed(name) ==
    /\ fnRet # <<>>
    /\ fnArg # <<>>
    /\ "category" \in DOMAIN fnArg[1]
    /\ fnArg[1].name = name

\* The priority mapping function has been applied to a priority of this name.
MappedPriorityNamed(name) ==
    /\ fnRet # <<>>
    /\ fnArg # <<>>
    /\ DOMAIN fnArg[1] = {"name"}
    /\ fnArg[1].name = name

\* C22: every Jira status named "Blocked" converts to beads status blocked.
C22_BlockedStatusIsBlocked ==
    MappedStatusNamed(<<"B", "l", "o", "c", "k", "e", "d">>) => fnRet[1] = "blocked"

\* C23: Jira priority "Highest" converts to beads p1 and Jira priority
\* "High" converts to beads p2.
C23_DocumentedPriorityTable ==
    /\ MappedPriorityNamed(<<"H", "i", "g", "h", "e", "s", "t">>) => fnRet[1] = "p1"
    /\ MappedPriorityNamed(<<"H", "i", "g", "h">>) => fnRet[1] = "p2"

\* The command has rendered the same Jira export as the command that
\* rendered before it, with the same renderer.
RenderedSameAgain ==
    /\ stage = "rendered"
    /\ prevRun # <<>>
    /\ prevRun[1].cmd = cmd
    /\ prevRun[1].export = fetchRet.export[1]

\* Every stored issue and epic is in the one file named after its id.
OneFilePerId ==
    /\ \A name \in DOMAIN issueFiles : ParseIssueFile(issueFiles[name]).id = name
    /\ \A name \in DOMAIN epicFiles : ParseIssueFile(epicFiles[name]).id = name

StoredRepositories(id) == ParseIssueFile(issueFiles[id]).repositories

\* C25: after any sequence of AddRepositoryAnnotation calls, the
\* repositories list of a stored issue contains no repository twice and
\* lists the repositories in the order in which they were first
\* successfully added.
C25_RepositoriesInOrderOfAdding ==
    \A id \in DOMAIN issueFiles :
        /\ NoRepeats(StoredRepositories(id))
        /\ StoredRepositories(id) = Field(added, id, <<>>)

C25_Witness ==
    /\ annRet # <<>>
    /\ annRet[1].err = DuplicateMsg
    /\ Len(StoredRepositories(annRet[1].id)) >= 2

\* The AddRepositoryAnnotation call of the step fails: there is no stored
\* issue of that id, or the repository is in the list of the stored issue.
AnnotationMustFail(call) ==
    \/ call.id \notin DOMAIN issueFiles
    \/ call.repository \in Range(StoredRepositories(call.id))

\* C26: AddRepositoryAnnotation returns an error exactly when no stored
\* issue has that id or the repository is already associated with the
\* issue, and a call that returns an error changes no issue file and
\* creates none.
C26_FailedAnnotationChangesNothing ==
    [][ annRet' # annRet =>
          /\ (annRet'[1].err # "") <=> AnnotationMustFail(annRet'[1])
          /\ annRet'[1].err # "" => outputVars' = outputVars ]_vars

C26_Witness ==
    /\ annRet # <<>>
    /\ annRet[1].err = NotFoundMsg
    /\ \E id \in DOMAIN issueFiles : StoredRepositories(id) # <<>>

\* C27: the renderer is invoked only after the fetch (or the parse) and
\* Convert have both succeeded; a command whose fetch, parse or Convert
\* returns an error writes no issue and no epic.
C27_NoOutputWithoutSuccess ==
    [][ /\ (outputVars' # outputVars \/ written' > written) =>
             /\ stage = "converted" /\ stage' = "rendered"
             /\ ~fetchRet.err /\ fetchRet.export # <<>>
             /\ ~convRet.err /\ convRet.export # <<>>
        /\ stage' = "failed" =>
             /\ written' = 0
             /\ outputVars' = outputVars
             /\ fetchRet'.err \/ convRet'.err ]_vars

C27_Witness ==
    /\ stage = "failed"
    /\ fetchRet.err
    /\ issues # <<>>
    /\ written = 0

(***************************************************************************)
(* Properties of a traversal that a fetch error ends.                      *)
(***************************************************************************)
\* Number of FetchIssue requests the Issue Source has received for the keys ks.
RECURSIVE RequestsFor(_)
RequestsFor(ks) ==
    IF ks = {} THEN 0
    ELSE LET k == CHOOSE x \in ks : TRUE
         IN requests[k] + RequestsFor(ks \ {k})

\* C28: once a FetchIssue call has failed, the traversal has returned with
\* no call pending; the failed call is the last one the Issue Source
\* received, and it received one request for the failed key.
C28_FirstFetchErrorEndsTraversal ==
    failedKey # <<>> =>
        /\ phase = "returned"
        /\ stack = <<>>
        /\ requests[failedKey[1]] = 1
        /\ RequestsFor(Keys) = Len(issues) + 1

\* C28 witness: the fetch of the first seed of a label search fetched a
\* record and then failed for a key it refers to, and a later seed has not
\* been requested.
C28_Witness ==
    /\ failedKey # <<>>
    /\ Len(seeds) >= 2
    /\ Len(issues) >= 1
    /\ requests[seeds[Len(seeds)]] = 0

\* C29: the error of an aborted traversal is the "failed to fetch" error
\* that names the key whose FetchIssue call failed, and that key only.
C29_ErrorNamesFailedKey ==
    /\ failedKey # <<>> =>
          /\ errMsg.msg = FetchFailedMsg
          /\ errMsg.key = failedKey
          /\ failedKey[1] \notin KeysOfRecords(issues)
    /\ errMsg.msg = FetchFailedMsg => failedKey # <<>>
    /\ errMsg.msg # FetchFailedMsg => errMsg.key = <<>>

\* C29 witness: the failed key is not a seed, and the seed and the record
\* through which it was reached had been fetched.
C29_Witness ==
    /\ failedKey # <<>>
    /\ failedKey[1] \notin Range(seeds)
    /\ Range(seeds) \subseteq KeysOfRecords(issues)
    /\ errMsg.key = failedKey

(***************************************************************************)
(* Properties of annotations under later imports.                          *)
(***************************************************************************)
\* C30: a repository that AddRepositoryAnnotation has added to an issue
\* stays in the repositories list of the stored issue, whatever annotate
\* and import commands follow on the same output directory.
C30_AnnotationIsDurable ==
    \A id \in DOMAIN added :
        /\ id \in DOMAIN issueFiles
        /\ Range(added[id]) \subseteq Range(StoredRepositories(id))

====
